---- MODULE Spec2Model ----
(***************************************************************************)
(* Model of wss_py_wrapper.stimulation_controller.StimulationController:   *)
(* the lifecycle operations (Initialize, Shutdown, releaseRadio,           *)
(* resetRadio), the background tick loop, and the command surface.         *)
(*                                                                         *)
(* Foreground callers and the tick threads are processes.  A lifecycle     *)
(* operation is split at the points where another thread can observe the   *)
(* controller's fields; a command is split between its device-present      *)
(* check and its device call.                                              *)
(***************************************************************************)
EXTENDS Integers, Sequences, FiniteSets, TLC

\* ---------------------------------------------------------------- bounds
NumCallers == 2
MaxThreads == 2
MaxDevices == 2

Callers == 1..NumCallers
ThreadIds == 1..MaxThreads
DeviceIds == 1..MaxDevices

\* Python's None, for the slots that hold a device, a handle or a thread.
None == 0

VARIABLES
    gate,             \* self._gate: 0 when free, else the caller holding it
    wss,              \* self._wss: None or a device
    basic_wss,        \* self._basic_wss: None or the extended handle of a device
    basic_supported,  \* self._basic_supported
    tick_thread,      \* self._tick_thread: None or a thread
    tick_stop,        \* self._tick_stop (threading.Event)
    log_reset,        \* self._log_reset is not None
    log_type,         \* self._log_type is not None
    net_types,        \* self._net_types is not None
    started,          \* self.started
    thr,              \* the tick threads ever started and still running
    dev,              \* what the controller has done to each device so far
    sink,             \* the .NET Log type: whether it holds the Python sink (held), and
                      \* whether the reset callback of that installation was called
    cli,              \* the interactive console: where it is (at) and how its loop
                      \* ended (exit)
    call              \* each caller's call in progress, or the one just finished

ctl == <<wss, basic_wss, basic_supported, tick_thread, tick_stop, log_reset,
         log_type, net_types, started>>
vars == <<gate, wss, basic_wss, basic_supported, tick_thread, tick_stop,
          log_reset, log_type, net_types, started, thr, dev, sink, cli,
          call>>

\* ------------------------------------------------------------ call records
\* A call made on a collaborator: the device ("wss"), its extended handle
\* ("basic"), the .NET Log type ("log"), the driver loader ("loader"), a
\* constructor ("ctor") or a thread ("thread"); raised tells whether it raised,
\* ret what it answered where the controller tests the answer.
Cell(ty, v) == [ty |-> ty, v |-> v]
Op(on, op, d, args, target) ==
    [on |-> on, op |-> op, d |-> d, args |-> args, target |-> target,
     raised |-> FALSE, ret |-> "none"]
Outcome(o, raises) == [o EXCEPT !.raised = raises, !.ret = IF raises THEN "none" ELSE @]
Returned(o, v) == [o EXCEPT !.ret = v]

\* A caller's record: the public method called, its arguments, what it found in
\* the slot it tests first (ref), how it ended (res, ret) and the calls it made.
Idle ==
    [pc |-> "idle", op |-> "none", args |-> <<>>, ref |-> None,
     res |-> "none", ret |-> "none", ops |-> <<>>]

InCall(op, pc, args, ref, ops) ==
    [pc |-> pc, op |-> op, args |-> args, ref |-> ref,
     res |-> "none", ret |-> "none", ops |-> ops]

Done(op, args, ref, res, ret, ops) ==
    [pc |-> "done", op |-> op, args |-> args, ref |-> ref,
     res |-> res, ret |-> ret, ops |-> ops]

\* The .NET Log type with its default sink, and with the Python sink installed.
NoSink == [held |-> FALSE, called |-> FALSE]
InstalledSink == [held |-> TRUE, called |-> FALSE]

\* No console: the controller is used as a library.
NoCli == [at |-> "none", exit |-> "none"]

NoThread == [pc |-> "none", d |-> None]
Alive(t) == thr[t].pc \in {"top", "call", "invoke", "tick", "caught"}
AliveThreads == {t \in ThreadIds : Alive(t)}

Init ==
    /\ gate = 0
    /\ wss = None
    /\ basic_wss = None
    /\ basic_supported = FALSE
    /\ tick_thread = None
    /\ tick_stop = FALSE
    /\ log_reset = FALSE
    /\ log_type = FALSE
    /\ net_types = FALSE
    /\ started = FALSE
    /\ thr = [t \in ThreadIds |-> NoThread]
    /\ dev = [d \in DeviceIds |-> "none"]
    /\ sink = NoSink
    /\ cli = NoCli
    /\ call = [c \in Callers |-> Idle]

\* ------------------------------------------------------------------- gate
GateFree_always == TRUE

\* with self._gate (lines 51, 69, 96): a caller enters the body when the lock is
\* free, and waits while another caller holds it.
GateFree == gate = 0

\* ------------------------------------------------------------- _log_error
\* The Log.Error call _log_error makes, or nothing when no Log type is held.
_log_error(msg) ==
    IF log_type THEN <<Op("log", "Error", None, <<>>, msg)>> ELSE <<>>

\* ---------------------------------------------------------- _try_get_basic
\* What the device's TryGetBasic does: raise, return a (success, handle) pair,
\* or return a single value that is not a pair.
TryGetBasicResults ==
    {"raise", "tuple_T_h", "tuple_T_None", "tuple_F_h", "tuple_F_None",
     "bool_T", "bool_F"}

_try_get_basic(d, result) ==
    CASE result = "raise"        -> <<FALSE, None>>
      [] result = "tuple_T_h"    -> <<TRUE, d>>
      [] result = "tuple_T_None" -> <<TRUE, None>>
      [] result = "tuple_F_h"    -> <<FALSE, d>>
      [] result = "tuple_F_None" -> <<FALSE, None>>
      [] result = "bool_T"       -> <<TRUE, None>>
      [] OTHER                   -> <<FALSE, None>>

\* -------------------------------------------------------- _ensure_tick_loop
\* The thread table, handle and stop flag after _ensure_tick_loop, and whether
\* it started a thread.
_ensure_tick_loop ==
    IF wss = None
    THEN [th |-> thr, tt |-> tick_thread, ts |-> tick_stop, started |-> FALSE]
    ELSE IF tick_thread # None /\ Alive(tick_thread)
    THEN [th |-> thr, tt |-> tick_thread, ts |-> tick_stop, started |-> FALSE]
    ELSE LET cleared == IF tick_thread # None
                        THEN [thr EXCEPT ![tick_thread] = NoThread]
                        ELSE thr
             t == CHOOSE x \in ThreadIds : cleared[x].pc = "none"
         IN  [th |-> [cleared EXCEPT ![t] = [pc |-> "top", d |-> None]],
              tt |-> t, ts |-> FALSE, started |-> TRUE]

ThreadStart(e) ==
    IF e.started THEN <<Op("thread", "start", e.tt, <<>>, "")>> ELSE <<>>

\* A join that times out leaves its thread running without a handle, so that
\* threads accumulate; Initialize and resetRadio, which start a thread, are
\* called while fewer than MaxThreads threads exist.
MayStartThread == Cardinality({t \in ThreadIds : thr[t].pc # "none"}) < MaxThreads

\* ------------------------------------------------------------- Initialize
\* What the collaborators do during Initialize: all return, or the first of them
\* that raises.
InitOutcomes ==
    {"ok", "load_raises", "resolve_raises", "install_raises", "construct_raises"}

\* The next device to be constructed; no more than MaxDevices are.
NextDevice == Cardinality({d \in DeviceIds : dev[d] # "none"}) + 1

AlreadyInitialized_never == FALSE

\* Initialize, line 52: the test for the early return.
AlreadyInitialized == wss # None

\* Initialize, lines 51-63: the gate is taken, the early return, driver loading
\* (_load_dotnet), the log sink (_install_log_sink), construction of the three
\* layers, and the extended-capability query.
Initialize_enter(c, out, tgb) ==
    /\ call[c].pc = "idle"
    /\ MayStartThread
    /\ GateFree
    /\ IF AlreadyInitialized
       THEN /\ call' = [call EXCEPT ![c] =
                          Done("Initialize", <<>>, wss, "ok", "none", <<>>)]
            /\ UNCHANGED <<gate, ctl, thr, dev, sink, cli>>
       ELSE LET loadFails == out = "load_raises"
                install == ~loadFails /\ ~log_reset
                resolveFails == install /\ out = "resolve_raises"
                installFails == install /\ out = "install_raises"
                installed == install /\ ~resolveFails /\ ~installFails
                ctorFails == out = "construct_raises" \/ NextDevice > MaxDevices
                failed == loadFails \/ resolveFails \/ installFails \/ ctorFails
                d == NextDevice
                b == _try_get_basic(d, tgb)
                ops0 == <<Outcome(Op("loader", "load", None, <<>>, ""), loadFails)>>
                ops1 == IF install
                        THEN <<Outcome(Op("log", "resolve", None, <<>>, ""), resolveFails)>>
                        ELSE <<>>
                ops2 == IF install /\ ~resolveFails
                        THEN <<Outcome(Op("log", "SetSink", None, <<>>, ""), installFails)>>
                        ELSE <<>>
                ops3 == <<Outcome(Op("ctor", "ModelParamsLayer", None, <<>>, ""), ctorFails)>>
                ops4 == <<Outcome(Op("wss", "TryGetBasic", d, <<>>, ""), tgb = "raise")>>
            IN
            /\ net_types' = (IF loadFails THEN net_types ELSE TRUE)
            /\ log_type' = (IF install /\ ~resolveFails THEN TRUE ELSE log_type)
            /\ log_reset' = (IF installed THEN TRUE ELSE log_reset)
            /\ sink' = (IF installed THEN InstalledSink ELSE sink)
            /\ UNCHANGED cli
            /\ IF failed
               THEN /\ call' = [call EXCEPT ![c] =
                          Done("Initialize", <<>>, None, "raised", "none",
                               IF loadFails THEN ops0
                               ELSE IF resolveFails THEN ops0 \o ops1
                               ELSE IF installFails THEN ops0 \o ops1 \o ops2
                               ELSE ops0 \o ops1 \o ops2 \o ops3)]
                    /\ UNCHANGED <<gate, wss, basic_wss, basic_supported, dev>>
               ELSE /\ wss' = d
                    /\ basic_supported' = b[1]
                    /\ basic_wss' = b[2]
                    /\ dev' = [dev EXCEPT ![d] = "new"]
                    /\ gate' = c
                    /\ call' = [call EXCEPT ![c] =
                          InCall("Initialize", "init_dev", <<>>, None,
                                 ops0 \o ops1 \o ops2 \o ops3 \o ops4)]
            /\ UNCHANGED <<tick_thread, tick_stop, started, thr>>

\* Initialize, line 65: the device's own Initialize; when it raises, the with
\* statement releases the gate and the exception leaves Initialize.
Initialize_dev(c, raises) ==
    /\ call[c].pc = "init_dev"
    /\ LET ops == call[c].ops \o <<Outcome(Op("wss", "Initialize", wss, <<>>, ""), raises)>>
       IN IF raises
          THEN /\ gate' = 0
               /\ call' = [call EXCEPT ![c] =
                             Done("Initialize", <<>>, None, "raised", "none", ops)]
               /\ UNCHANGED dev
          ELSE /\ dev' = [dev EXCEPT ![wss] = "init"]
               /\ call' = [call EXCEPT ![c].pc = "init_tick", ![c].ops = ops]
               /\ UNCHANGED gate
    /\ UNCHANGED <<ctl, thr, sink, cli>>

\* Initialize, line 66: the tick loop is started and the gate released.
Initialize_tick(c) ==
    /\ call[c].pc = "init_tick"
    /\ LET e == _ensure_tick_loop
       IN /\ thr' = e.th
          /\ tick_thread' = e.tt
          /\ tick_stop' = e.ts
          /\ gate' = 0
          /\ call' = [call EXCEPT ![c] =
                Done("Initialize", <<>>, None, "ok", "none", call[c].ops \o ThreadStart(e))]
    /\ UNCHANGED <<wss, basic_wss, basic_supported, log_reset, log_type, net_types,
                   started, dev, sink, cli>>

\* ---------------------------------------------------------- _stop_tick_loop
\* _stop_tick_loop, lines 128-130, at the start of Shutdown and resetRadio:
\* nothing without a thread handle, else the stop flag is set and the join begins.
_stop_tick_loop_set(c, op, after) ==
    IF tick_thread = None
    THEN /\ call' = [call EXCEPT ![c] = InCall(op, after, <<>>, wss, <<>>)]
         /\ UNCHANGED tick_stop
    ELSE /\ call' = [call EXCEPT ![c] =
                 InCall(op, "join", <<>>, wss, <<Op("thread", "stop", tick_thread, <<>>, "")>>)]
         /\ tick_stop' = TRUE

JoinTimesOut_never == FALSE

\* _stop_tick_loop, line 131: join(timeout=2) returns after two seconds when the
\* thread is still running.
JoinTimesOut == Alive(tick_thread)

\* _stop_tick_loop, lines 131-132: join(timeout=2) returns because the thread has
\* ended or because the two seconds have passed; the handle is dropped either way.
_stop_tick_loop_join(c, timeout) ==
    /\ call[c].pc = "join"
    /\ IF timeout
       THEN /\ JoinTimesOut
            /\ UNCHANGED thr
       ELSE /\ thr[tick_thread].pc = "dead"
            /\ thr' = [thr EXCEPT ![tick_thread] = NoThread]
    /\ tick_thread' = None
    /\ call' = [call EXCEPT ![c].pc =
                  IF call[c].op = "resetRadio" THEN "rr_down" ELSE "sd_dev"]
    /\ UNCHANGED <<gate, wss, basic_wss, basic_supported, tick_stop, log_reset,
                   log_type, net_types, started, dev, sink, cli>>

\* --------------------------------------------------------------- Shutdown
\* releaseRadio (lines 92-93) only calls Shutdown.
LifecycleStops == {"Shutdown", "releaseRadio"}

\* Shutdown, lines 69-70.
Shutdown_enter(c, op) ==
    /\ call[c].pc = "idle"
    /\ GateFree
    /\ gate' = c
    /\ _stop_tick_loop_set(c, op, "sd_dev")
    /\ UNCHANGED <<wss, basic_wss, basic_supported, tick_thread, log_reset, log_type,
                   net_types, started, thr, dev, sink, cli>>

Teardown_oneTry(d, r1, r2) ==
    IF r1
    THEN <<Outcome(Op("wss", "Shutdown", d, <<>>, ""), TRUE)>>
         \o _log_error("Error during Shutdown")
    ELSE <<Op("wss", "Shutdown", d, <<>>, ""),
           Outcome(Op("wss", "Dispose", d, <<>>, ""), r2)>>
         \o (IF r2 THEN _log_error("Error disposing stimulation core") ELSE <<>>)

\* Shutdown, lines 72-79: the device's Shutdown and its Dispose, each in its own
\* try whose handler logs the error.
Teardown(d, r1, r2) ==
    <<Outcome(Op("wss", "Shutdown", d, <<>>, ""), r1)>>
    \o (IF r1 THEN _log_error("Error during Shutdown") ELSE <<>>)
    \o <<Outcome(Op("wss", "Dispose", d, <<>>, ""), r2)>>
    \o (IF r2 THEN _log_error("Error disposing stimulation core") ELSE <<>>)

\* Shutdown, lines 71-79.
Shutdown_dev(c, r1, r2) ==
    /\ call[c].pc = "sd_dev"
    /\ IF wss # None
       THEN /\ call' = [call EXCEPT ![c].pc = "sd_clear",
                                    ![c].ops = @ \o Teardown(wss, r1, r2)]
            /\ dev' = [dev EXCEPT ![wss] = "disposed"]
       ELSE /\ call' = [call EXCEPT ![c].pc = "sd_clear"]
            /\ UNCHANGED dev
    /\ UNCHANGED <<gate, ctl, thr, sink, cli>>

SlotAfterShutdown_kept == wss

\* Shutdown, line 87.
SlotAfterShutdown == None

\* Shutdown, lines 81-90: the log reset callback in a try that swallows, then the
\* fields are cleared (self._log_reset and self._log_type are not among them)
\* and the gate released.
Shutdown_clear(c, r3) ==
    /\ call[c].pc = "sd_clear"
    /\ call' = [call EXCEPT ![c] =
          Done(call[c].op, <<>>, call[c].ref, "ok", "none",
               call[c].ops \o
               (IF log_reset
                THEN <<Outcome(Op("log", "ResetSink", None, <<>>, ""), r3)>>
                ELSE <<>>))]
    /\ sink' = (IF log_reset
                THEN [held |-> IF r3 THEN sink.held ELSE FALSE, called |-> TRUE]
                ELSE sink)
    /\ wss' = SlotAfterShutdown
    /\ basic_wss' = None
    /\ basic_supported' = FALSE
    /\ started' = FALSE
    /\ gate' = 0
    /\ UNCHANGED <<tick_thread, tick_stop, log_reset, log_type, net_types, thr, dev, cli>>

\* -------------------------------------------------------------- resetRadio
\* resetRadio, lines 96-99.
resetRadio_enter(c) ==
    /\ call[c].pc = "idle"
    /\ MayStartThread
    /\ GateFree
    /\ IF wss = None
       THEN /\ call' = [call EXCEPT ![c] =
                          Done("resetRadio", <<>>, None, "ok", "none", <<>>)]
            /\ UNCHANGED <<gate, tick_stop>>
       ELSE /\ gate' = c
            /\ _stop_tick_loop_set(c, "resetRadio", "rr_down")
    /\ UNCHANGED <<wss, basic_wss, basic_supported, tick_thread, log_reset, log_type,
                   net_types, started, thr, dev, sink, cli>>

resetRadio_down_dispose(c, raises) ==
    /\ call[c].pc = "rr_down"
    /\ dev' = [dev EXCEPT ![wss] = "down"]
    /\ LET ops == call[c].ops \o <<Outcome(Op("wss", "Shutdown", wss, <<>>, ""), raises)>>
       IN IF raises
          THEN /\ gate' = 0
               /\ call' = [call EXCEPT ![c] =
                             Done("resetRadio", <<>>, call[c].ref, "raised", "none", ops)]
          ELSE /\ call' = [call EXCEPT ![c].pc = "rr_init",
                              ![c].ops = ops \o <<Op("wss", "Dispose", wss, <<>>, "")>>]
               /\ UNCHANGED gate
    /\ UNCHANGED <<ctl, thr, sink, cli>>

\* resetRadio, line 100: the device's Shutdown, not in a try.
resetRadio_down(c, raises) ==
    /\ call[c].pc = "rr_down"
    /\ dev' = [dev EXCEPT ![wss] = "down"]
    /\ LET ops == call[c].ops \o <<Outcome(Op("wss", "Shutdown", wss, <<>>, ""), raises)>>
       IN IF raises
          THEN /\ gate' = 0
               /\ call' = [call EXCEPT ![c] =
                             Done("resetRadio", <<>>, call[c].ref, "raised", "none", ops)]
          ELSE /\ call' = [call EXCEPT ![c].pc = "rr_init", ![c].ops = ops]
               /\ UNCHANGED gate
    /\ UNCHANGED <<ctl, thr, sink, cli>>

resetRadio_init_swallow(c, raises) ==
    /\ call[c].pc = "rr_init"
    /\ LET ops == call[c].ops \o <<Outcome(Op("wss", "Initialize", wss, <<>>, ""), raises)>>
                   \o (IF raises THEN _log_error("Error during resetRadio") ELSE <<>>)
       IN /\ call' = [call EXCEPT ![c].pc = "rr_tick", ![c].ops = ops]
          /\ dev' = [dev EXCEPT ![wss] = IF raises THEN @ ELSE "init"]
          /\ UNCHANGED gate
    /\ UNCHANGED <<ctl, thr, sink, cli>>

\* resetRadio, line 101: the device's Initialize, not in a try.
resetRadio_init(c, raises) ==
    /\ call[c].pc = "rr_init"
    /\ LET ops == call[c].ops \o <<Outcome(Op("wss", "Initialize", wss, <<>>, ""), raises)>>
       IN IF raises
          THEN /\ gate' = 0
               /\ call' = [call EXCEPT ![c] =
                             Done("resetRadio", <<>>, call[c].ref, "raised", "none", ops)]
               /\ UNCHANGED dev
          ELSE /\ call' = [call EXCEPT ![c].pc = "rr_tick", ![c].ops = ops]
               /\ dev' = [dev EXCEPT ![wss] = "init"]
               /\ UNCHANGED gate
    /\ UNCHANGED <<ctl, thr, sink, cli>>

\* resetRadio, line 102: the tick loop is started again and the gate released.
resetRadio_tick(c) ==
    /\ call[c].pc = "rr_tick"
    /\ LET e == _ensure_tick_loop
       IN /\ thr' = e.th
          /\ tick_thread' = e.tt
          /\ tick_stop' = e.ts
          /\ gate' = 0
          /\ call' = [call EXCEPT ![c] =
                Done("resetRadio", <<>>, call[c].ref, "ok", "none",
                     call[c].ops \o ThreadStart(e))]
    /\ UNCHANGED <<wss, basic_wss, basic_supported, log_reset, log_type, net_types,
                   started, dev, sink, cli>>

\* ------------------------------------------------------------------- loop
\* loop, line 116 and the test of line 118: the thread ends when the stop flag is
\* set; it sleeps when there is no device.
loop_top(t) ==
    /\ thr[t].pc = "top"
    /\ thr' = [thr EXCEPT ![t] =
                 IF tick_stop
                 THEN (IF tick_thread = t THEN [pc |-> "dead", d |-> None] ELSE NoThread)
                 ELSE IF wss # None THEN [pc |-> "call", d |-> None]
                 ELSE @]
    /\ UNCHANGED <<gate, ctl, dev, sink, cli, call>>

\* loop, line 119: self._wss is read again, for the call of its Tick; when the
\* slot has been emptied since the test, the AttributeError goes to line 120.
loop_call(t) ==
    /\ thr[t].pc = "call"
    /\ thr' = [thr EXCEPT ![t] =
                 IF wss = None THEN [pc |-> "caught", d |-> None]
                 ELSE [pc |-> "invoke", d |-> wss]]
    /\ UNCHANGED <<gate, ctl, dev, sink, cli, call>>

\* loop, line 119: the thread calls Tick on the device it has read.
loop_invoke(t) ==
    /\ thr[t].pc = "invoke"
    /\ thr' = [thr EXCEPT ![t].pc = "tick"]
    /\ UNCHANGED <<gate, ctl, dev, sink, cli, call>>

LoopAfterRaise_ends(th) == NoThread

\* loop, line 120: where the thread th goes when its Tick call raises.
LoopAfterRaise(th) == [th EXCEPT !.pc = "caught"]

\* loop, lines 119-120: Tick returns, and the thread goes to its sleep, or raises.
loop_tick_return(t, raises) ==
    /\ thr[t].pc = "tick"
    /\ thr' = [thr EXCEPT ![t] =
                 IF raises THEN LoopAfterRaise(@) ELSE [pc |-> "top", d |-> None]]
    /\ UNCHANGED <<gate, ctl, dev, sink, cli, call>>

\* loop, lines 121-122: the handler logs the error (_log_error swallows what
\* Log.Error raises), then the sleep.
loop_caught(t) ==
    /\ thr[t].pc = "caught"
    /\ thr' = [thr EXCEPT ![t] = [pc |-> "top", d |-> None]]
    /\ UNCHANGED <<gate, ctl, dev, sink, cli, call>>

\* ------------------------------------------------------------ argument values
IntCell(n) == Cell("int", n)
NoneCell == Cell("none", 0)
IsInt(a) == a.ty = "int"
IsBuilder(a) == a.ty = "builder"
IsSequence(a) == a.ty = "list"

\* ------------------------------------------------------ _int_to_wss_target
_int_to_wss_target_two(value) ==
    IF value.ty = "none" THEN "Broadcast"
    ELSE IF IsInt(value) /\ value.v = 1 THEN "Wss1"
    ELSE IF IsInt(value) /\ value.v = 2 THEN "Wss2"
    ELSE "Broadcast"

_int_to_wss_target_fromZero(value) ==
    IF value.ty = "none" THEN "Broadcast"
    ELSE IF IsInt(value) /\ value.v = 0 THEN "Wss1"
    ELSE IF IsInt(value) /\ value.v = 1 THEN "Wss2"
    ELSE IF IsInt(value) /\ value.v = 2 THEN "Wss3"
    ELSE "Broadcast"

\* _int_to_wss_target, lines 410-420.
_int_to_wss_target(value) ==
    IF value.ty = "none" THEN "Broadcast"
    ELSE IF IsInt(value) /\ value.v = 1 THEN "Wss1"
    ELSE IF IsInt(value) /\ value.v = 2 THEN "Wss2"
    ELSE IF IsInt(value) /\ value.v = 3 THEN "Wss3"
    ELSE "Broadcast"

\* ------------------------------------------------------ _finger_to_channel
\* A Python str is the sequence of its characters.
UpperCase == <<"B", "C", "D", "E", "G", "H", "I", "K", "L", "M", "N", "P", "R",
               "T", "U", "X", "Y">>
LowerCase == <<"b", "c", "d", "e", "g", "h", "i", "k", "l", "m", "n", "p", "r",
               "t", "u", "x", "y">>
DigitChars == <<"0", "1", "2", "3", "4", "5", "6", "7", "8", "9">>

\* str.lower, on the letters the inputs are written with.
lower(s) ==
    [i \in 1..Len(s) |->
        IF \E k \in DOMAIN UpperCase : UpperCase[k] = s[i]
        THEN LowerCase[CHOOSE k \in DOMAIN UpperCase : UpperCase[k] = s[i]]
        ELSE s[i]]

startswith(s, prefix) ==
    Len(s) >= Len(prefix) /\ SubSeq(s, 1, Len(prefix)) = prefix

IsDigit(ch) == \E k \in DOMAIN DigitChars : DigitChars[k] = ch
DigitValue(ch) == (CHOOSE k \in DOMAIN DigitChars : DigitChars[k] = ch) - 1

\* int(str) first strips the white space around the literal.
RECURSIVE strip(_)
strip(s) ==
    IF s # <<>> /\ Head(s) = " " THEN strip(Tail(s))
    ELSE IF s # <<>> /\ s[Len(s)] = " " THEN strip(SubSeq(s, 1, Len(s) - 1))
    ELSE s

\* The digit part of a decimal literal: digits, with single underscores allowed
\* between two digits.
IsDecimal(s) ==
    /\ s # <<>>
    /\ \A i \in DOMAIN s : IsDigit(s[i]) \/ s[i] = "_"
    /\ s[1] # "_"
    /\ s[Len(s)] # "_"
    /\ \A i \in 1..(Len(s) - 1) : ~(s[i] = "_" /\ s[i + 1] = "_")

RECURSIVE DecimalValue(_)
DecimalValue(s) ==
    IF s = <<>> THEN 0
    ELSE IF s[Len(s)] = "_" THEN DecimalValue(SubSeq(s, 1, Len(s) - 1))
    ELSE 10 * DecimalValue(SubSeq(s, 1, Len(s) - 1)) + DigitValue(s[Len(s)])

\* int(str) of Python: the value of an optionally signed decimal literal, or
\* ValueError.
int(s) ==
    LET t == strip(s)
        signed == t # <<>> /\ t[1] \in {"+", "-"}
        body == IF signed THEN Tail(t) ELSE t
    IN IF IsDecimal(body)
       THEN [ok |-> TRUE,
             v |-> IF signed /\ t[1] = "-" THEN 0 - DecimalValue(body)
                   ELSE DecimalValue(body)]
       ELSE [ok |-> FALSE, v |-> 0]

\* _finger_to_channel, lines 422-444.
_finger_to_channel(finger_or_alias) ==
    IF finger_or_alias = <<>> THEN 0
    ELSE IF startswith(lower(finger_or_alias), <<"c", "h">>)
    THEN (IF int(SubSeq(finger_or_alias, 3, Len(finger_or_alias))).ok
          THEN int(SubSeq(finger_or_alias, 3, Len(finger_or_alias))).v
          ELSE 0)
    ELSE LET match == lower(finger_or_alias)
         IN CASE match = <<"t", "h", "u", "m", "b">>      -> 1
              [] match = <<"i", "n", "d", "e", "x">>      -> 2
              [] match = <<"m", "i", "d", "d", "l", "e">> -> 3
              [] match = <<"r", "i", "n", "g">>           -> 4
              [] match = <<"p", "i", "n", "k", "y">>      -> 5
              [] match = <<"l", "i", "t", "t", "l", "e">> -> 5
              [] OTHER -> 0

\* -------------------------------------------------------------- _ensure_wss
\* The commands that begin with _ensure_wss and then call the device.
EnsureCmds ==
    {"StimulateAnalog", "StartStimulation", "StopStimulation", "StimulateNormalized",
     "GetStimIntensity", "SaveParamsJson", "LoadParamsJson", "AddOrUpdateStimParam",
     "GetStimParam", "TryGetStimParam", "GetAllStimParams", "SetChannelAmp",
     "SetChannelPWMin", "SetChannelPWMax", "SetChannelIPI", "GetChannelAmp",
     "GetChannelPWMin", "GetChannelPWMax", "GetChannelIPI", "IsFingerValid",
     "StimWithMode", "UpdateChannelParams", "isModeValid", "GetModelConfigCTRL",
     "GetCoreConfigCTRL", "LoadCoreConfigFile"}

\* The device method a command calls first, where its name differs.
DeviceMethod(name) ==
    CASE name = "StartStimulation"    -> "StartStim"
      [] name = "StopStimulation"     -> "StopStim"
      [] name = "IsFingerValid"       -> "IsChannelInRange"
      [] name = "UpdateChannelParams" -> "IsChannelInRange"
      [] name = "isModeValid"         -> "IsModeValid"
      [] name = "GetModelConfigCTRL"  -> "GetModelConfigController"
      [] name = "GetCoreConfigCTRL"   -> "GetCoreConfigController"
      [] name = "LoadCoreConfigFile"  -> "LoadConfigFile"
      [] OTHER                        -> name

CommandReady_gated(c) == call[c].pc = "idle" /\ gate = 0

\* A command method begins as soon as it is called: none of them is inside
\* with self._gate (lines 134-335).
CommandReady(c) == call[c].pc = "idle"

SlotEmpty_never == FALSE

\* _ensure_wss, line 388: the test.
SlotEmpty == wss = None

\* _ensure_wss, lines 387-390, at the head of a command: the not-initialized
\* error, or the device the command goes on to call.
_ensure_wss(c, name, args) ==
    /\ CommandReady(c)
    /\ name \in EnsureCmds
    /\ call' = [call EXCEPT ![c] =
          IF SlotEmpty
          THEN Done(name, args, None, "NotInitialized", "none", <<>>)
          ELSE InCall(name, "cmd", args, wss, <<>>)]
    /\ UNCHANGED <<gate, ctl, thr, dev, sink, cli>>

\* The commands whose first parameter is a locator, resolved by
\* _finger_to_channel before the device is called.
FingerCmds ==
    {"StimulateAnalog", "StimulateNormalized", "GetStimIntensity", "SetChannelAmp",
     "SetChannelPWMin", "SetChannelPWMax", "SetChannelIPI", "GetChannelAmp",
     "GetChannelPWMin", "GetChannelPWMax", "GetChannelIPI", "IsFingerValid",
     "StimWithMode", "UpdateChannelParams"}

StrCell(s) == Cell("str", s)

\* UpdateChannelParams, line 314: the key f"stim.ch.{ch}" followed by a suffix.
ParamKey(ch, suffix) == Cell("key", <<"stim", "ch", ch, suffix>>)

ParamUpdates_ampFirst(d, ch, args) ==
    <<Op("wss", "AddOrUpdateStimParam", d, <<ParamKey(ch, "amp"), args[4]>>, ""),
      Op("wss", "AddOrUpdateStimParam", d, <<ParamKey(ch, "maxPW"), args[2]>>, ""),
      Op("wss", "AddOrUpdateStimParam", d, <<ParamKey(ch, "minPW"), args[3]>>, "")>>

\* UpdateChannelParams, lines 315-317.
ParamUpdates(d, ch, args) ==
    <<Op("wss", "AddOrUpdateStimParam", d, <<ParamKey(ch, "maxPW"), args[2]>>, ""),
      Op("wss", "AddOrUpdateStimParam", d, <<ParamKey(ch, "minPW"), args[3]>>, ""),
      Op("wss", "AddOrUpdateStimParam", d, <<ParamKey(ch, "amp"), args[4]>>, "")>>

AnalogArgs_noDefaults(args) ==
    <<IntCell(_finger_to_channel(args[1].v))>> \o Tail(args)

\* StimulateAnalog, lines 134-137: the channel, PW, and amp and IPI with their
\* defaults of the signature.
AnalogArgs(args) ==
    <<IntCell(_finger_to_channel(args[1].v)),
      args[2],
      IF Len(args) >= 3 THEN args[3] ELSE IntCell(3),
      IF Len(args) >= 4 THEN args[4] ELSE IntCell(10)>>

\* The arguments of the first device call of a command (lines 134-147, 226-335).
DeviceArgs(name, args) ==
    CASE name = "StimulateAnalog" -> AnalogArgs(args)
      [] name \in {"IsFingerValid", "UpdateChannelParams"} ->
            <<IntCell(_finger_to_channel(args[1].v))>>
      [] name \in FingerCmds \ {"StimulateAnalog", "IsFingerValid", "UpdateChannelParams"} ->
            <<IntCell(_finger_to_channel(args[1].v))>> \o Tail(args)
      [] name = "LoadParamsJson" ->
            (IF args = <<>> \/ args[1].ty = "none" THEN <<>> ELSE args)
      [] OTHER -> args

\* The device calls a command makes when none of them raises; inrange is what
\* the device's IsChannelInRange answers.
CommandCalls(name, args, d, inrange) ==
    LET target == IF name \in {"StartStimulation", "StopStimulation"}
                  THEN "Broadcast" ELSE ""
        o == Op("wss", DeviceMethod(name), d, DeviceArgs(name, args), target)
        first == IF DeviceMethod(name) = "IsChannelInRange"
                 THEN Returned(o, IF inrange THEN "True" ELSE "False")
                 ELSE o
    IN IF name = "UpdateChannelParams" /\ inrange
       THEN <<first>> \o ParamUpdates(d, _finger_to_channel(args[1].v), args)
       ELSE <<first>>

\* The calls made when the failAt-th of them raises (none when failAt = 0).
Performed(calls, failAt) ==
    IF failAt = 0 THEN calls
    ELSE SubSeq(calls, 1, failAt - 1) \o <<Outcome(calls[failAt], TRUE)>>

StartedAfter_always(name, raised) ==
    IF name = "StartStimulation" THEN TRUE
    ELSE IF name = "StopStimulation" THEN FALSE
    ELSE started

\* StartStimulation and StopStimulation, lines 139-147: self.started is set
\* after a device call that returned.
StartedAfter(name, raised) ==
    IF raised THEN started
    ELSE IF name = "StartStimulation" THEN TRUE
    ELSE IF name = "StopStimulation" THEN FALSE
    ELSE started

\* The rest of a command that passed _ensure_wss: its device calls, up to the
\* one that raises; UpdateChannelParams raises ValueError (line 312) when the
\* channel is out of range.
Command_call(c, inrange, failAt) ==
    /\ call[c].pc = "cmd"
    /\ LET name == call[c].op
           calls == CommandCalls(name, call[c].args, call[c].ref, inrange)
           raised == failAt > 0
           res == IF raised THEN "raised"
                  ELSE IF name = "UpdateChannelParams" /\ ~inrange THEN "ValueError"
                  ELSE "ok"
       IN /\ failAt \in 0..Len(calls)
          /\ call' = [call EXCEPT ![c] =
                Done(name, call[c].args, call[c].ref, res,
                     IF res = "ok" THEN "device" ELSE "none",
                     Performed(calls, failAt))]
          /\ started' = StartedAfter(name, raised)
    /\ UNCHANGED <<gate, wss, basic_wss, basic_supported, tick_thread, tick_stop,
                   log_reset, log_type, net_types, thr, dev, sink, cli>>

\* ---------------------------------------------------------- Ready / Started
StatusCmds == {"Ready", "Started"}

\* Ready and Started, lines 322-326: the test of self._wss.
Status_test(c, name) ==
    /\ CommandReady(c)
    /\ name \in StatusCmds
    /\ call' = [call EXCEPT ![c] =
          IF wss = None
          THEN Done(name, <<>>, None, "ok", "False", <<>>)
          ELSE InCall(name, "status", <<>>, wss, <<>>)]
    /\ UNCHANGED <<gate, ctl, thr, dev, sink, cli>>

\* Ready and Started: self._wss is read again and the device asked.
Status_call(c, raises) ==
    /\ call[c].pc = "status"
    /\ call' = [call EXCEPT ![c] =
          IF wss = None
          THEN Done(call[c].op, <<>>, call[c].ref, "AttributeError", "none", <<>>)
          ELSE Done(call[c].op, <<>>, call[c].ref, IF raises THEN "raised" ELSE "ok",
                    IF raises THEN "none" ELSE "device",
                    <<Outcome(Op("wss", call[c].op, wss, <<>>, ""), raises)>>)]
    /\ UNCHANGED <<gate, ctl, thr, dev, sink, cli>>

\* ------------------------------------------------------------ updateWaveform
NoCall == [err |-> TRUE, op |-> "", args |-> <<>>, target |-> ""]
BasicCall(op, args, target) == [err |-> FALSE, op |-> op, args |-> args, target |-> target]

FourInts_orMore(args) == Len(args) >= 4 /\ \A i \in 1..Len(args) : IsInt(args[i])

\* updateWaveform, line 199: the test of the last shape.
FourInts(args) == Len(args) = 4 /\ \A i \in 1..4 : IsInt(args[i])

\* updateWaveform, lines 174-204: the call made on the extended handle for an
\* argument tuple, or the ValueError.
updateWaveform(args) ==
    IF Len(args) = 2 /\ IsBuilder(args[1])
    THEN BasicCall("UpdateWaveform", <<args[1], args[2]>>, "Broadcast")
    ELSE IF Len(args) = 3 /\ IsInt(args[1]) /\ IsBuilder(args[2])
    THEN BasicCall("UpdateWaveform", <<args[2], args[3]>>, _int_to_wss_target(args[1]))
    ELSE IF Len(args) = 2 /\ IsSequence(args[1])
    THEN BasicCall("UpdateWaveform", <<args[1], args[2]>>, "Broadcast")
    ELSE IF Len(args) = 3 /\ IsInt(args[1]) /\ IsSequence(args[2])
    THEN BasicCall("UpdateWaveform", <<args[2], args[3]>>, _int_to_wss_target(args[1]))
    ELSE IF Len(args) = 3 /\ \A i \in 1..3 : IsInt(args[i])
    THEN BasicCall("UpdateEventShape", <<args[1], args[2], args[3]>>, "Broadcast")
    ELSE IF FourInts(args)
    THEN BasicCall("UpdateEventShape", <<args[2], args[3], args[4]>>,
                   _int_to_wss_target(args[1]))
    ELSE NoCall

\* ------------------------------------------------------- extended commands
ExtCmds ==
    {"Save", "load", "request_Configs", "updateWaveform", "loadWaveform",
     "WaveformSetup", "UpdateIPD"}

\* The call an extended command makes on the handle (lines 149-224).
ExtCall(name, args) ==
    CASE name = "Save" -> BasicCall("Save", <<>>, _int_to_wss_target(args[1]))
      [] name = "load" -> BasicCall("Load", <<>>, _int_to_wss_target(args[1]))
      [] name = "request_Configs" ->
            BasicCall("Request_Configs", <<args[2], args[3]>>, _int_to_wss_target(args[1]))
      [] name = "updateWaveform" -> updateWaveform(args)
      [] name = "loadWaveform" -> BasicCall("LoadWaveform", <<args[1], args[2]>>, "")
      [] name = "WaveformSetup" ->
            BasicCall("WaveformSetup", <<args[1], args[2]>>, _int_to_wss_target(args[3]))
      [] OTHER ->
            BasicCall("UpdateIPD", <<args[1], args[2]>>, _int_to_wss_target(args[3]))

BasicMissing_flagOnly == ~basic_supported

\* _require_basic, line 405: the test.
BasicMissing == ~basic_supported \/ basic_wss = None

\* _require_basic, lines 404-408, at the head of an extended command: without
\* the capability the error is logged and the command returns.
_require_basic(c, name, args) ==
    /\ CommandReady(c)
    /\ name \in ExtCmds
    /\ call' = [call EXCEPT ![c] =
          IF BasicMissing
          THEN Done(name, args, None, "ok", "none",
                    _log_error("Basic stimulation not supported."))
          ELSE InCall(name, "ext", args, basic_wss, <<>>)]
    /\ UNCHANGED <<gate, ctl, thr, dev, sink, cli>>

\* The rest of an extended command: the ValueError of updateWaveform, or the
\* call on the handle _require_basic returned.
Extended_call(c, raises) ==
    /\ call[c].pc = "ext"
    /\ LET x == ExtCall(call[c].op, call[c].args)
       IN call' = [call EXCEPT ![c] =
             IF x.err
             THEN Done(call[c].op, call[c].args, call[c].ref, "ValueError", "none", <<>>)
             ELSE Done(call[c].op, call[c].args, call[c].ref,
                       IF raises THEN "raised" ELSE "ok", "none",
                       <<Outcome(Op("basic", x.op, call[c].ref, x.args, x.target), raises)>>)]
    /\ UNCHANGED <<gate, ctl, thr, dev, sink, cli>>

\* ------------------------------------------------------------------ inputs
MaxArgs == 5
TargetVals == -1..4

\* The values an argument in position i is drawn from: an integer, a waveform
\* builder, a list of samples, or something else (a string).  The first position
\* ranges over the target selectors; the others carry their position.
ArgCells(i) ==
    IF i = 1
    THEN {IntCell(v) : v \in TargetVals} \cup
         {Cell("builder", 1), Cell("list", 1), Cell("str", 1)}
    ELSE {IntCell(10 + i), Cell("builder", i), Cell("list", i), Cell("str", i)}

RECURSIVE ArgTuples(_)
ArgTuples(n) ==
    IF n = 0 THEN {<<>>}
    ELSE {Append(a, x) : a \in ArgTuples(n - 1), x \in ArgCells(n)}

\* Every argument tuple of up to MaxArgs values.
AllArgs == UNION {ArgTuples(n) : n \in 0..MaxArgs}

\* The tuples the interleaved specification calls updateWaveform with: one of
\* each accepted shape, and rejected ones of each length.
SomeArgs ==
    {<<Cell("builder", 1), IntCell(12)>>,
     <<IntCell(2), Cell("builder", 2), IntCell(13)>>,
     <<Cell("list", 1), IntCell(12)>>,
     <<IntCell(3), Cell("list", 2), IntCell(13)>>,
     <<IntCell(1), IntCell(12), IntCell(13)>>,
     <<IntCell(4), IntCell(12), IntCell(13), IntCell(14)>>,
     <<>>,
     <<Cell("builder", 1)>>,
     <<IntCell(1), IntCell(12)>>,
     <<IntCell(1), Cell("str", 2), IntCell(13)>>,
     <<IntCell(1), IntCell(12), IntCell(13), Cell("str", 4)>>,
     <<IntCell(1), IntCell(12), IntCell(13), IntCell(14), IntCell(15)>>}

TargetArgs == {NoneCell} \cup {IntCell(v) : v \in TargetVals}

\* The target selectors the interleaved specification passes.
SomeTargets == {NoneCell, IntCell(2)}

\* The argument tuples each extended command is called with: uw those of
\* updateWaveform, targets the target selectors.
ExtInputs(name, uw, targets) ==
    CASE name \in {"Save", "load"} -> {<<t>> : t \in targets}
      [] name = "request_Configs" -> {<<t, IntCell(12), IntCell(13)>> : t \in targets}
      [] name = "updateWaveform" -> uw
      [] name = "loadWaveform" -> {<<Cell("str", 1), IntCell(12)>>}
      [] name = "WaveformSetup" -> {<<Cell("builder", 1), IntCell(12), t>> : t \in targets}
      [] OTHER -> {<<IntCell(11), IntCell(12), t>> : t \in targets}

\* ---------------------------------------------------------------- locators
MaxRest == 3

thumb == <<"t", "h", "u", "m", "b">>
index == <<"i", "n", "d", "e", "x">>
middle == <<"m", "i", "d", "d", "l", "e">>
ring == <<"r", "i", "n", "g">>
pinky == <<"p", "i", "n", "k", "y">>
little == <<"l", "i", "t", "t", "l", "e">>

upper(s) ==
    [i \in 1..Len(s) |->
        IF \E k \in DOMAIN LowerCase : LowerCase[k] = s[i]
        THEN UpperCase[CHOOSE k \in DOMAIN LowerCase : LowerCase[k] = s[i]]
        ELSE s[i]]

capitalize(s) == IF s = <<>> THEN s ELSE upper(<<s[1]>>) \o Tail(s)

\* Names in lower case, in upper case and capitalized; names the resolver does
\* not know; the empty locator.
NameLocators ==
    LET names == {thumb, index, middle, ring, pinky, little,
                  <<"t", "h", "u", "m">>, <<"t", "h", "u", "m", "b", "x">>,
                  <<" ">> \o thumb, <<"p", "i", "n", "k">>, <<"x">>, <<"1">>,
                  <<"c">>, <<"h", "c", "1">>}
    IN {<<>>} \cup names \cup {upper(n) : n \in names} \cup {capitalize(n) : n \in names}

\* What follows "ch": up to MaxRest characters among digits, signs, the
\* underscore, the blank and a letter.
RestChars == {"0", "1", "7", "-", "+", "_", " ", "x"}

RECURSIVE RestStrings(_)
RestStrings(n) ==
    IF n = 0 THEN {<<>>}
    ELSE {Append(r, x) : r \in RestStrings(n - 1), x \in RestChars}

ChLocators ==
    {p \o r : p \in {<<"c", "h">>, <<"C", "H">>, <<"C", "h">>, <<"c", "H">>},
              r \in UNION {RestStrings(n) : n \in 0..MaxRest}}

AllLocators == NameLocators \cup ChLocators

\* The locators the commands other than IsFingerValid are called with.
SomeLocators ==
    {thumb, upper(index), capitalize(pinky), little, <<>>, <<"x">>,
     <<"c", "h", "7">>, <<"C", "H", "1", "2">>, <<"c", "h", "x">>, <<"c", "h">>,
     <<"c", "h", "-", "3">>}

\* The argument tuples each command that begins with _ensure_wss is called with.
CmdInputs(name, locs) ==
    CASE name = "StimulateAnalog" ->
            {<<StrCell(l), IntCell(200)>> : l \in locs} \cup
            {<<StrCell(l), IntCell(200), IntCell(a)>> : l \in locs, a \in {3, 5}} \cup
            {<<StrCell(l), IntCell(200), IntCell(a), IntCell(i)>> :
                 l \in locs, a \in {3, 5}, i \in {10, 20}}
      [] name = "UpdateChannelParams" ->
            {<<StrCell(l), IntCell(300), IntCell(50), IntCell(4)>> : l \in locs}
      [] name \in {"StimulateNormalized", "StimWithMode", "SetChannelAmp",
                   "SetChannelPWMin", "SetChannelPWMax", "SetChannelIPI"} ->
            {<<StrCell(l), IntCell(7)>> : l \in locs}
      [] name \in FingerCmds \ {"StimulateAnalog", "UpdateChannelParams",
                   "StimulateNormalized", "StimWithMode", "SetChannelAmp",
                   "SetChannelPWMin", "SetChannelPWMax", "SetChannelIPI"} ->
            {<<StrCell(l)>> : l \in locs}
      [] name = "AddOrUpdateStimParam" -> {<<StrCell(<<"k">>), IntCell(7)>>}
      [] name \in {"GetStimParam", "TryGetStimParam"} -> {<<StrCell(<<"k">>)>>}
      [] name = "LoadParamsJson" -> {<<>>, <<NoneCell>>, <<StrCell(<<"p">>)>>}
      [] OTHER -> {<<>>}

\* The caller takes the result of its call and is ready for the next one.
Return(c) ==
    /\ call[c].pc = "done"
    /\ call' = [call EXCEPT ![c] = Idle]
    /\ UNCHANGED <<gate, ctl, thr, dev, sink, cli>>

\* The steps of the lifecycle operations; timeouts tells how a join may end.
Lifecycle(c, timeouts) ==
    \/ \E out \in InitOutcomes, tgb \in TryGetBasicResults : Initialize_enter(c, out, tgb)
    \/ \E raises \in BOOLEAN : Initialize_dev(c, raises)
    \/ Initialize_tick(c)
    \/ \E op \in LifecycleStops : Shutdown_enter(c, op)
    \/ \E timeout \in timeouts : _stop_tick_loop_join(c, timeout)
    \/ \E r1, r2 \in BOOLEAN : Shutdown_dev(c, r1, r2)
    \/ \E r3 \in BOOLEAN : Shutdown_clear(c, r3)
    \/ resetRadio_enter(c)
    \/ \E raises \in BOOLEAN : resetRadio_down(c, raises)
    \/ \E raises \in BOOLEAN : resetRadio_init(c, raises)
    \/ resetRadio_tick(c)

\* The outcomes of the device calls of a command: at most four calls are made.
FailPoints == 0..4

\* The steps of the commands: those of ens that begin with _ensure_wss, Ready
\* and Started, and those of exts that begin with _require_basic.
Commands(c, ens, exts, uw, locs) ==
    \/ \E name \in ens : \E args \in CmdInputs(name, locs) :
          _ensure_wss(c, name, args)
    \/ \E inrange \in BOOLEAN, failAt \in FailPoints : Command_call(c, inrange, failAt)
    \/ \E name \in StatusCmds : Status_test(c, name)
    \/ \E raises \in BOOLEAN : Status_call(c, raises)
    \/ \E name \in exts : \E args \in ExtInputs(name, uw, SomeTargets) :
          _require_basic(c, name, args)
    \/ \E raises \in BOOLEAN : Extended_call(c, raises)

TickLoop ==
    \E t \in ThreadIds :
        \/ loop_top(t)
        \/ loop_call(t)
        \/ loop_invoke(t)
        \/ \E raises \in BOOLEAN : loop_tick_return(t, raises)
        \/ loop_caught(t)

\* One foreground thread issues the calls, one after the other, beside the tick
\* threads.
Foreground == {c \in Callers : \A x \in Callers : c <= x}

\* The commands called beside the lifecycle operations in Spec.
SomeEnsureCmds == {"StartStimulation", "StopStimulation"}
SomeExtCmds == {"loadWaveform"}

Next ==
    \/ \E c \in Foreground :
          \/ Lifecycle(c, BOOLEAN)
          \/ Commands(c, SomeEnsureCmds, SomeExtCmds, {}, {thumb})
          \/ Return(c)
    \/ TickLoop

Spec == Init /\ [][Next]_vars

\* The whole command surface beside the lifecycle operations, in the runs where
\* the tick thread ends within the two seconds of every join.
NextSurface ==
    \/ \E c \in Foreground :
          \/ Lifecycle(c, {FALSE})
          \/ Commands(c, EnsureCmds, ExtCmds, SomeArgs, {thumb})
          \/ Return(c)
    \/ TickLoop

SpecSurface == Init /\ [][NextSurface]_vars

\* The controller after an Initialize that returned.
Initialized ==
    /\ gate = 0
    /\ wss = 1
    /\ \E tgb \in TryGetBasicResults :
          /\ basic_supported = _try_get_basic(1, tgb)[1]
          /\ basic_wss = _try_get_basic(1, tgb)[2]
    /\ tick_thread = 1
    /\ tick_stop = FALSE
    /\ log_reset = TRUE
    /\ log_type = TRUE
    /\ net_types = TRUE
    /\ started = FALSE
    /\ thr = [t \in ThreadIds |-> IF t = 1 THEN [pc |-> "top", d |-> None] ELSE NoThread]
    /\ dev = [d \in DeviceIds |-> IF d = 1 THEN "init" ELSE "none"]
    /\ sink = InstalledSink
    /\ call = [c \in Callers |-> Idle]

\* The dispatcher on its own: an initialized controller, every argument tuple.
InitDispatch == Initialized /\ cli = NoCli

NextDispatch ==
    \E c \in Foreground :
        \/ \E args \in AllArgs : _require_basic(c, "updateWaveform", args)
        \/ \E raises \in BOOLEAN : Extended_call(c, raises)
        \/ Return(c)

SpecDispatch == InitDispatch /\ [][NextDispatch]_vars

\* The command surface on its own: an initialized controller, every command
\* that begins with _ensure_wss and every extended command but updateWaveform,
\* with every target selector.
NextCommands ==
    \E c \in Foreground :
        \/ \E name \in EnsureCmds : \E args \in CmdInputs(name, SomeLocators) :
              _ensure_wss(c, name, args)
        \/ \E inrange \in BOOLEAN, failAt \in FailPoints : Command_call(c, inrange, failAt)
        \/ \E name \in ExtCmds \ {"updateWaveform"} :
              \E args \in ExtInputs(name, {}, TargetArgs) : _require_basic(c, name, args)
        \/ \E raises \in BOOLEAN : Extended_call(c, raises)
        \/ Return(c)

SpecCommands == InitDispatch /\ [][NextCommands]_vars

\* The channel resolver on its own: IsFingerValid with every locator.
NextResolver ==
    \E c \in Foreground :
        \/ \E l \in AllLocators : _ensure_wss(c, "IsFingerValid", <<StrCell(l)>>)
        \/ \E inrange \in BOOLEAN, failAt \in FailPoints : Command_call(c, inrange, failAt)
        \/ Return(c)

SpecResolver == InitDispatch /\ [][NextResolver]_vars

\* The lifecycle operations alone, called one after the other: joins end either
\* way, the device's Initialize and Shutdown return or raise.
NextLifecycle ==
    \/ \E c \in Foreground :
          \/ Initialize_enter(c, "ok", "tuple_T_h")
          \/ \E raises \in BOOLEAN : Initialize_dev(c, raises)
          \/ Initialize_tick(c)
          \/ \E op \in LifecycleStops : Shutdown_enter(c, op)
          \/ \E timeout \in BOOLEAN : _stop_tick_loop_join(c, timeout)
          \/ \E r1 \in BOOLEAN : Shutdown_dev(c, r1, FALSE)
          \/ Shutdown_clear(c, FALSE)
          \/ resetRadio_enter(c)
          \/ \E raises \in BOOLEAN : resetRadio_down(c, raises)
          \/ \E raises \in BOOLEAN : resetRadio_init(c, raises)
          \/ resetRadio_tick(c)
          \/ Return(c)
    \/ TickLoop

\* The steps of a caller inside a lifecycle operation it has begun.
Body(c) ==
    \/ \E raises \in BOOLEAN : Initialize_dev(c, raises)
    \/ Initialize_tick(c)
    \/ \E timeout \in BOOLEAN : _stop_tick_loop_join(c, timeout)
    \/ \E r1, r2 \in BOOLEAN : Shutdown_dev(c, r1, r2)
    \/ \E r3 \in BOOLEAN : Shutdown_clear(c, r3)
    \/ \E raises \in BOOLEAN : resetRadio_down(c, raises)
    \/ \E raises \in BOOLEAN : resetRadio_init(c, raises)
    \/ resetRadio_tick(c)

\* The caller's thread and the tick threads are scheduled fairly, the calls the
\* caller makes on the device return or raise, and join(timeout=2) returns when
\* the thread has ended or the two seconds have passed.  Nothing is assumed of
\* a Tick call returning.
SpecLive ==
    /\ Init
    /\ [][NextLifecycle]_vars
    /\ \A t \in ThreadIds :
          /\ WF_vars(loop_top(t))
          /\ WF_vars(loop_call(t))
          /\ WF_vars(loop_invoke(t))
          /\ WF_vars(loop_caught(t))
    /\ \A c \in Foreground : WF_vars(Body(c))

\* ------------------------------------------------------- several callers
\* The lifecycle operations called from several threads, in the runs where the
\* tick thread ends within the two seconds of every join.
NextGate ==
    \/ \E c \in Callers :
          \/ \E out \in {"ok", "load_raises"} : Initialize_enter(c, out, "tuple_T_h")
          \/ \E raises \in BOOLEAN : Initialize_dev(c, raises)
          \/ Initialize_tick(c)
          \/ \E op \in LifecycleStops : Shutdown_enter(c, op)
          \/ _stop_tick_loop_join(c, FALSE)
          \/ \E r1 \in BOOLEAN : Shutdown_dev(c, r1, FALSE)
          \/ Shutdown_clear(c, FALSE)
          \/ resetRadio_enter(c)
          \/ \E raises \in BOOLEAN : resetRadio_down(c, raises)
          \/ \E raises \in BOOLEAN : resetRadio_init(c, raises)
          \/ resetRadio_tick(c)
          \/ Return(c)
    \/ TickLoop

SpecGate == Init /\ [][NextGate]_vars

\* One thread issues the lifecycle calls while the other threads issue commands:
\* StartStimulation, StopStimulation and Save.
NextRace ==
    \/ \E c \in Foreground :
          \/ \E out \in {"ok", "load_raises"}, tgb \in {"tuple_T_h", "bool_F"} :
                Initialize_enter(c, out, tgb)
          \/ \E raises \in BOOLEAN : Initialize_dev(c, raises)
          \/ Initialize_tick(c)
          \/ \E op \in LifecycleStops : Shutdown_enter(c, op)
          \/ _stop_tick_loop_join(c, FALSE)
          \/ \E r1, r2 \in BOOLEAN : Shutdown_dev(c, r1, r2)
          \/ Shutdown_clear(c, FALSE)
          \/ resetRadio_enter(c)
          \/ \E raises \in BOOLEAN : resetRadio_down(c, raises)
          \/ \E raises \in BOOLEAN : resetRadio_init(c, raises)
          \/ resetRadio_tick(c)
    \/ \E c \in Callers \ Foreground :
          \/ \E name \in SomeEnsureCmds : _ensure_wss(c, name, <<>>)
          \/ \E failAt \in 0..1 : Command_call(c, TRUE, failAt)
          \/ _require_basic(c, "Save", <<NoneCell>>)
          \/ \E raises \in BOOLEAN : Extended_call(c, raises)
    \/ \E c \in Callers : Return(c)
    \/ TickLoop

SpecRace == Init /\ [][NextRace]_vars

\* ------------------------------------------------------- the console (cli.py)
\* The controller calls the console commands make: start, stop, status,
\* reload-core, reload-params, save-params, stim and analog.
CliEnsureCmds ==
    {"StartStimulation", "StopStimulation", "isModeValid", "LoadCoreConfigFile",
     "LoadParamsJson", "SaveParamsJson", "StimWithMode", "StimulateAnalog"}

\* analog always passes pw, amp and ipi (cli.py, lines 108-111).
CliInputs(name) ==
    IF name = "StimulateAnalog"
    THEN {a \in CmdInputs(name, {thumb}) : Len(a) = 4}
    ELSE CmdInputs(name, {thumb})

\* How the loop of _run_interactive_loop ends: quit or exit (line 74), end of
\* input (line 62), or an exception that the handler of line 114 does not
\* catch, raised while the console waits for input.
CliExits == {"quit", "eof", "exception"}

\* _run_interactive_loop, lines 70-111: a command calls the controller.
cli_command(c) ==
    /\ cli.at = "loop"
    /\ \/ \E name \in CliEnsureCmds : \E args \in CliInputs(name) :
             _ensure_wss(c, name, args)
       \/ \E name \in StatusCmds : Status_test(c, name)

\* _run_interactive_loop, lines 112-115 and 58: the call returned or raised an
\* Exception, which is printed; the loop goes on.
cli_continue(c) ==
    /\ cli.at = "loop"
    /\ Return(c)

\* _run_interactive_loop, lines 58-62 and 116: the loop ends and the finally
\* block begins.
cli_exit(c, how) ==
    /\ cli.at = "loop"
    /\ call[c].pc = "idle"
    /\ cli' = [at |-> "finally", exit |-> how]
    /\ UNCHANGED <<gate, ctl, thr, dev, sink, call>>

\* _run_interactive_loop, line 117.
cli_StopStimulation(c) ==
    /\ cli.at = "finally"
    /\ _ensure_wss(c, "StopStimulation", <<>>)

\* _run_interactive_loop, lines 117-118: line 118 follows line 117 when line 117
\* returned; what it raised leaves the function.
AfterStop(res) == IF res = "ok" THEN "shutdown" ELSE "exited"

\* _run_interactive_loop, line 117: StopStimulation has returned or raised.
cli_stopped(c) ==
    /\ cli.at = "finally"
    /\ call[c].pc = "done"
    /\ cli' = [cli EXCEPT !.at = AfterStop(call[c].res)]
    /\ call' = [call EXCEPT ![c] = IF AfterStop(call[c].res) = "shutdown" THEN Idle ELSE @]
    /\ UNCHANGED <<gate, ctl, thr, dev, sink>>

\* _run_interactive_loop, line 118.
cli_Shutdown(c) ==
    /\ cli.at = "shutdown"
    /\ Shutdown_enter(c, "Shutdown")

\* _run_interactive_loop, line 118: Shutdown has returned, and the function.
cli_return(c) ==
    /\ cli.at = "shutdown"
    /\ call[c].pc = "done"
    /\ cli' = [cli EXCEPT !.at = "exited"]
    /\ UNCHANGED <<gate, ctl, thr, dev, sink, call>>

\* main, lines 153-162: the loop is entered with the controller initialized.
InitCli == Initialized /\ cli = [at |-> "loop", exit |-> "none"]

NextCli ==
    \/ \E c \in Foreground :
          \/ cli_command(c)
          \/ \E inrange \in BOOLEAN, failAt \in FailPoints : Command_call(c, inrange, failAt)
          \/ \E raises \in BOOLEAN : Status_call(c, raises)
          \/ cli_continue(c)
          \/ \E how \in CliExits : cli_exit(c, how)
          \/ cli_StopStimulation(c)
          \/ cli_stopped(c)
          \/ cli_Shutdown(c)
          \/ \E timeout \in BOOLEAN : _stop_tick_loop_join(c, timeout)
          \/ \E r1, r2 \in BOOLEAN : Shutdown_dev(c, r1, r2)
          \/ \E r3 \in BOOLEAN : Shutdown_clear(c, r3)
          \/ cli_return(c)
    \/ TickLoop

SpecCli == InitCli /\ [][NextCli]_vars

\* The tick threads are scheduled fairly: a thread that can take its next step
\* (the test of the stop flag and the slot, the call of Tick, the handler) takes
\* it.  Nothing is assumed of the callers, nor of a Tick call returning.
SpecFair ==
    /\ Init
    /\ [][Next]_vars
    /\ \A t \in ThreadIds :
          /\ WF_vars(loop_top(t))
          /\ WF_vars(loop_call(t))
          /\ WF_vars(loop_invoke(t))
          /\ WF_vars(loop_caught(t))

\* ================================================================== claims
IsDeviceOp(o) == o.on \in {"wss", "basic"}
DeviceOps(ops) == SelectSeq(ops, IsDeviceOp)
DeviceCalls(ops) == [i \in 1..Len(DeviceOps(ops)) |->
                        <<DeviceOps(ops)[i].op, DeviceOps(ops)[i].d>>]
CountCalls(ops, name) ==
    Cardinality({i \in DOMAIN ops : ops[i].on = "wss" /\ ops[i].op = name})
Finished(c, names) == call[c].pc = "done" /\ call[c].op \in names
LastOp(c) == call[c].ops[Len(call[c].ops)]

\* Initialize raised, and the call that raised was one on a collaborator in ons.
InitializeFailedAt(c, ons) ==
    /\ Finished(c, {"Initialize"})
    /\ call[c].res = "raised"
    /\ call[c].ops # <<>>
    /\ LastOp(c).raised
    /\ LastOp(c).on \in ons

\* The devices constructed and not yet torn down by a Shutdown.
LiveDevices == {d \in DeviceIds : dev[d] \notin {"none", "disposed"}}

\* C1: with no Shutdown in between, the device is constructed once: no device
\* other than the one in the slot is constructed and not torn down, and an
\* Initialize that finds the slot populated returns normally having constructed
\* nothing, not called the device's Initialize and started no thread.
C1_InitializeOnce ==
    /\ LiveDevices \subseteq {wss}
    /\ \A c \in Callers :
          (Finished(c, {"Initialize"}) /\ call[c].ref # None)
             => call[c].res = "ok" /\ call[c].ops = <<>>

C1_Witness ==
    \E c \in Callers :
       /\ Finished(c, {"Initialize"})
       /\ call[c].ref # None
       /\ call[c].ops = <<>>
       /\ wss = call[c].ref

\* C2: a Shutdown (or releaseRadio) returns normally in every state and leaves
\* the slot empty, so the next one finds it empty; one that finds the slot empty
\* makes no device call; no Shutdown calls the device's Shutdown or Dispose more
\* than once.
C2_ShutdownAnyState ==
    \A c \in Callers :
       Finished(c, LifecycleStops) =>
          /\ call[c].res = "ok"
          /\ wss = None
          /\ (call[c].ref = None => DeviceOps(call[c].ops) = <<>>)
          /\ CountCalls(call[c].ops, "Shutdown") <= 1
          /\ CountCalls(call[c].ops, "Dispose") <= 1

C2_Witness ==
    \E c \in Callers :
       /\ Finished(c, {"Shutdown"})
       /\ call[c].ref = None
       /\ \E d \in DeviceIds : dev[d] = "disposed"
       /\ LiveDevices = {}

\* C3: a Shutdown that finds a device calls its Shutdown and then its Dispose,
\* whichever of them raises, and returns normally.
C3_ShutdownSwallows ==
    \A c \in Callers :
       (Finished(c, LifecycleStops) /\ call[c].ref # None) =>
          /\ call[c].res = "ok"
          /\ DeviceCalls(call[c].ops) =
                <<<<"Shutdown", call[c].ref>>, <<"Dispose", call[c].ref>>>>

C3_Witness ==
    \E c \in Callers :
       /\ Finished(c, {"Shutdown"})
       /\ call[c].ref # None
       /\ \A i \in DOMAIN call[c].ops :
             call[c].ops[i].op \in {"Shutdown", "Dispose", "ResetSink"}
                => call[c].ops[i].raised
       /\ \E i \in DOMAIN call[c].ops : call[c].ops[i].op = "ResetSink"

CommandNames == EnsureCmds \cup StatusCmds \cup ExtCmds

Unpopulated ==
    /\ wss = None
    /\ basic_wss = None
    /\ tick_thread = None
    /\ ~log_reset
    /\ ~basic_supported
    /\ ~started

\* C5: when driver loading or construction raises in Initialize, the fields
\* are left empty and false.
C5_FailedInitializeUnpopulated ==
    \A c \in Callers : InitializeFailedAt(c, {"loader", "ctor"}) => Unpopulated

\* C6: when the device's Initialize raises in the controller's Initialize, the
\* slot is empty afterwards.
C6_FailedDeviceInitializeEmptiesSlot ==
    \A c \in Callers : InitializeFailedAt(c, {"wss"}) => wss = None

\* C7: after an Initialize that returned normally, unless a Shutdown,
\* releaseRadio or resetRadio is called, a tick thread eventually calls Tick.
C7_TickAfterInitialize ==
    (\E c \in Callers : Finished(c, {"Initialize"}) /\ call[c].res = "ok")
       ~> \/ \E t \in ThreadIds : thr[t].pc = "tick"
          \/ \E c \in Callers : call[c].op \in LifecycleStops \cup {"resetRadio"}

\* C8: on an initialized controller without the extended capability, an
\* extended command is a single step that returns normally, makes no call on the
\* device or the handle, and leaves every field of the controller as it was.
C8_UnsupportedIsNoOp ==
    [][\A c \in Callers :
          (/\ call[c].pc = "idle"
           /\ call'[c].op \in ExtCmds
           /\ wss # None
           /\ (~basic_supported \/ basic_wss = None))
          => /\ call'[c].pc = "done"
             /\ call'[c].res = "ok"
             /\ DeviceOps(call'[c].ops) = <<>>
             /\ UNCHANGED <<gate, ctl, thr, dev, sink>>]_vars

C8_Witness ==
    \E c \in Callers :
       /\ Finished(c, ExtCmds)
       /\ wss # None
       /\ basic_supported
       /\ basic_wss = None
       /\ call[c].res = "ok"

\* The target selector an integer stands for (spec section 4.3).
ResolvedTarget(n) ==
    CASE n = 1 -> "Wss1" [] n = 2 -> "Wss2" [] n = 3 -> "Wss3" [] OTHER -> "Broadcast"

\* The call made exactly one call, on the extended handle, of this operation
\* with these arguments and this target.
OneCall(c, op, args, target) ==
    /\ Len(call[c].ops) = 1
    /\ call[c].ops[1].on = "basic"
    /\ call[c].ops[1].d = basic_wss
    /\ call[c].ops[1].op = op
    /\ call[c].ops[1].args = args
    /\ call[c].ops[1].target = target

AllInt(a) == \A i \in DOMAIN a : a[i].ty = "int"

\* C9: with the extended capability, each accepted shape of updateWaveform makes
\* exactly one call: the waveform update for a builder or a sample list, with the
\* Broadcast target or the one the leading integer resolves to; the event-shape
\* update (cathodic, anodic, id) for three integers (Broadcast) and for four (the
\* first resolved as the target).
C9_Dispatch ==
    \A c \in Callers :
       (Finished(c, {"updateWaveform"}) /\ basic_supported /\ basic_wss # None) =>
          LET a == call[c].args
              n == Len(a)
          IN /\ (n = 2 /\ a[1].ty = "builder")
                   => OneCall(c, "UpdateWaveform", <<a[1], a[2]>>, "Broadcast")
             /\ (n = 3 /\ a[1].ty = "int" /\ a[2].ty = "builder")
                   => OneCall(c, "UpdateWaveform", <<a[2], a[3]>>, ResolvedTarget(a[1].v))
             /\ (n = 2 /\ a[1].ty = "list")
                   => OneCall(c, "UpdateWaveform", <<a[1], a[2]>>, "Broadcast")
             /\ (n = 3 /\ a[1].ty = "int" /\ a[2].ty = "list")
                   => OneCall(c, "UpdateWaveform", <<a[2], a[3]>>, ResolvedTarget(a[1].v))
             /\ (n = 3 /\ AllInt(a))
                   => OneCall(c, "UpdateEventShape", <<a[1], a[2], a[3]>>, "Broadcast")
             /\ (n = 4 /\ AllInt(a))
                   => OneCall(c, "UpdateEventShape", <<a[2], a[3], a[4]>>,
                              ResolvedTarget(a[1].v))

C9_Witness ==
    \E c \in Callers :
       /\ Finished(c, {"updateWaveform"})
       /\ Len(call[c].args) = 4
       /\ AllInt(call[c].args)
       /\ call[c].args[1].v = 3
       /\ Len(call[c].ops) = 1
       /\ call[c].ops[1].target = "Wss3"

\* The six accepted shapes (spec section 4.4).
AcceptedShape(a) ==
    \/ Len(a) = 2 /\ a[1].ty \in {"builder", "list"}
    \/ Len(a) = 3 /\ a[1].ty = "int" /\ a[2].ty \in {"builder", "list"}
    \/ Len(a) \in {3, 4} /\ AllInt(a)

\* C10, as stated: an updateWaveform call of no accepted shape fails with the
\* unsupported-call-shape error and makes no device call.
C10_RejectsOtherShapes ==
    \A c \in Callers :
       (Finished(c, {"updateWaveform"}) /\ ~AcceptedShape(call[c].args)) =>
          /\ call[c].res = "ValueError"
          /\ DeviceOps(call[c].ops) = <<>>

\* C10, amended: such a call makes no device call; with the extended capability
\* it fails with the unsupported-call-shape error, without it it returns
\* normally.
C10_RejectsOtherShapesWhenSupported ==
    \A c \in Callers :
       (Finished(c, {"updateWaveform"}) /\ ~AcceptedShape(call[c].args)) =>
          /\ DeviceOps(call[c].ops) = <<>>
          /\ call[c].res = IF basic_supported /\ basic_wss # None
                           THEN "ValueError" ELSE "ok"

C10_Witness ==
    \E c \in Callers :
       /\ Finished(c, {"updateWaveform"})
       /\ Len(call[c].args) = 5
       /\ AllInt(call[c].args)
       /\ call[c].res = "ValueError"

\* ---------------------------------------------------------------- C11
\* C11: UpdateChannelParams on an initialized controller first asks the device
\* whether the resolved channel n is in range; when the answer is no it fails with
\* the invalid-channel error having made no parameter update; when it is yes it
\* makes the updates stim.ch.n.maxPW = max, stim.ch.n.minPW = min and
\* stim.ch.n.amp = amp, in this order and no other (all three unless one raises).
ClaimedUpdates(d, n, a) ==
    <<Op("wss", "AddOrUpdateStimParam", d, <<Cell("key", <<"stim", "ch", n, "maxPW">>), a[2]>>, ""),
      Op("wss", "AddOrUpdateStimParam", d, <<Cell("key", <<"stim", "ch", n, "minPW">>), a[3]>>, ""),
      Op("wss", "AddOrUpdateStimParam", d, <<Cell("key", <<"stim", "ch", n, "amp">>), a[4]>>, "")>>

Unraised(ops) == [i \in DOMAIN ops |-> [ops[i] EXCEPT !.raised = FALSE]]

C11_UpdateChannelParams ==
    \A c \in Callers :
       (Finished(c, {"UpdateChannelParams"}) /\ call[c].ref # None) =>
          LET ops == call[c].ops
              n == ops[1].args[1].v
              updates == SubSeq(ops, 2, Len(ops))
              claimed == ClaimedUpdates(call[c].ref, n, call[c].args)
          IN /\ ops # <<>>
             /\ ops[1].op = "IsChannelInRange"
             /\ ops[1].args = <<IntCell(_finger_to_channel(call[c].args[1].v))>>
             /\ ops[1].ret = "False" => call[c].res = "ValueError" /\ updates = <<>>
             /\ ops[1].ret = "True" =>
                   /\ Len(updates) <= 3
                   /\ Unraised(updates) = SubSeq(claimed, 1, Len(updates))
                   /\ call[c].res = "ok" <=> (updates = claimed)
                   /\ call[c].res # "ValueError"

C11_Witness ==
    \E c \in Callers :
       /\ Finished(c, {"UpdateChannelParams"})
       /\ call[c].args[1].v = upper(index)
       /\ call[c].res = "ok"
       /\ Len(call[c].ops) = 4
       /\ call[c].ops[4].args = <<Cell("key", <<"stim", "ch", 2, "amp">>), IntCell(4)>>

\* ---------------------------------------------------------------- C12, C14
\* The channel the specification gives a locator (section 4.2): the five named
\* locations, "ch" followed by digits, and 0 for everything else.
IsDigits(s) == s # <<>> /\ \A i \in DOMAIN s : IsDigit(s[i])

\* An integer written out: digits, with or without a sign.
IsSignedDigits(s) == s # <<>> /\ s[1] \in {"+", "-"} /\ IsDigits(Tail(s))

RECURSIVE DigitsValue(_)
DigitsValue(s) ==
    IF s = <<>> THEN 0
    ELSE 10 * DigitsValue(SubSeq(s, 1, Len(s) - 1)) + DigitValue(s[Len(s)])

ClaimedChannel(loc) ==
    LET l == lower(loc)
    IN IF startswith(l, <<"c", "h">>)
       THEN (IF IsDigits(SubSeq(l, 3, Len(l)))
             THEN DigitsValue(SubSeq(l, 3, Len(l))) ELSE 0)
       ELSE CASE l = thumb -> 1 [] l = index -> 2 [] l = middle -> 3
              [] l = ring -> 4 [] l = pinky -> 5 [] OTHER -> 0

\* The locators the claim speaks of: all but "ch" followed by a signed integer,
\* and the alias "little" of the fifth location.
ClaimCovers(loc) ==
    /\ lower(loc) # little
    /\ ~(startswith(lower(loc), <<"c", "h">>) /\ IsSignedDigits(SubSeq(loc, 3, Len(loc))))

\* C12, as stated: StimulateAnalog makes one device call, StimulateAnalog, with
\* the resolved channel, the pulse width, the amplitude (3 when omitted), the
\* interval (10 when omitted) and the Broadcast target.
AnalogCall(c) ==
    LET a == call[c].args
    IN /\ Len(call[c].ops) = 1
       /\ call[c].ops[1].on = "wss"
       /\ call[c].ops[1].d = call[c].ref
       /\ call[c].ops[1].op = "StimulateAnalog"
       /\ Len(call[c].ops[1].args) = 4
       /\ call[c].ops[1].args[1].ty = "int"
       /\ ClaimCovers(a[1].v) => call[c].ops[1].args[1].v = ClaimedChannel(a[1].v)
       /\ call[c].ops[1].args[2] = a[2]
       /\ call[c].ops[1].args[3] = (IF Len(a) >= 3 THEN a[3] ELSE IntCell(3))
       /\ call[c].ops[1].args[4] = (IF Len(a) >= 4 THEN a[4] ELSE IntCell(10))

C12_AnalogBroadcast ==
    \A c \in Callers :
       (Finished(c, {"StimulateAnalog"}) /\ call[c].ref # None) =>
          AnalogCall(c) /\ call[c].ops[1].target = "Broadcast"

\* C12, amended: the same call, which carries no target selector.
C12_AnalogNoTarget ==
    \A c \in Callers :
       (Finished(c, {"StimulateAnalog"}) /\ call[c].ref # None) =>
          AnalogCall(c) /\ call[c].ops[1].target = ""

C12_Witness ==
    \E c \in Callers :
       /\ Finished(c, {"StimulateAnalog"})
       /\ call[c].args = <<StrCell(thumb), IntCell(200)>>
       /\ call[c].res = "ok"
       /\ call[c].ops[1].args = <<IntCell(1), IntCell(200), IntCell(3), IntCell(10)>>

\* C14: the resolver gives every locator the channel of section 4.2, in any
\* letter case: the channel IsFingerValid asks the device about is that one.
C14_ChannelResolver ==
    \A c \in Callers :
       (Finished(c, {"IsFingerValid"}) /\ call[c].ref # None
           /\ ClaimCovers(call[c].args[1].v)) =>
          call[c].ops[1].args = <<IntCell(ClaimedChannel(call[c].args[1].v))>>

\* ---------------------------------------------------------------- C13
\* C13: a StartStimulation (StopStimulation) makes one device call, StartStim
\* (StopStim) with the Broadcast target, and then started is true (false) when
\* the call returned and as before when it raised; nothing else but a Shutdown
\* changes started, so that started tells whether the last Start or Stop that
\* succeeded was a Start.
StartStop == {"StartStimulation", "StopStimulation"}

C13_StartedFollowsStartStop ==
    [][/\ \A c \in Callers :
             (call[c].pc = "cmd" /\ call[c].op \in StartStop /\ call'[c].pc = "done") =>
                /\ Len(call'[c].ops) = 1
                /\ call'[c].ops[1].on = "wss"
                /\ call'[c].ops[1].d = call[c].ref
                /\ call'[c].ops[1].op =
                      (IF call[c].op = "StartStimulation" THEN "StartStim" ELSE "StopStim")
                /\ call'[c].ops[1].target = "Broadcast"
                /\ started' = IF call'[c].ops[1].raised THEN started
                              ELSE call[c].op = "StartStimulation"
       /\ started' # started =>
             \E c \in Callers :
                \/ call[c].pc = "cmd" /\ call[c].op \in StartStop
                \/ call[c].pc = "sd_clear"]_vars

C13_Witness ==
    \E c \in Callers :
       /\ Finished(c, {"StopStimulation"})
       /\ call[c].res = "raised"
       /\ started

\* ---------------------------------------------------------------- C15
\* C15: the commands that take a target selector never fail in resolving it: an
\* absent selector, 0 and every integer outside 1..3 give Broadcast, and 1, 2
\* and 3 give the three selectors Wss1, Wss2 and Wss3.
TargetCmds == {"Save", "load", "request_Configs", "WaveformSetup", "UpdateIPD"}

TargetArg(c) ==
    IF call[c].op \in {"WaveformSetup", "UpdateIPD"} THEN call[c].args[3]
    ELSE call[c].args[1]

C15_TargetResolver ==
    \A c \in Callers :
       (Finished(c, TargetCmds) /\ call[c].ref # None) =>
          /\ call[c].res \in {"ok", "raised"}
          /\ Len(call[c].ops) = 1
          /\ call[c].ops[1].on = "basic"
          /\ (TargetArg(c).ty = "none" \/ TargetArg(c).v \notin {1, 2, 3})
                => call[c].ops[1].target = "Broadcast"
          /\ (TargetArg(c).ty = "int" /\ TargetArg(c).v \in {1, 2, 3})
                => /\ call[c].ops[1].target = ResolvedTarget(TargetArg(c).v)
                   /\ call[c].ops[1].target # "Broadcast"

C15_Witness ==
    \E c \in Callers :
       /\ Finished(c, {"UpdateIPD"})
       /\ call[c].ref # None
       /\ TargetArg(c) = IntCell(0 - 1)
       /\ call[c].ops[1].target = "Broadcast"

\* ---------------------------------------------------------------- C16
\* C16: a resetRadio that finds the slot empty does nothing; one that finds a
\* device stops the tick loop, calls the device's Shutdown, then its Initialize,
\* then starts the tick loop, all on the device it found; it calls no Dispose,
\* constructs nothing and leaves the device slot, the extended handle and
\* basic_supported as they were.
ResetRadioSteps(d, hadThread, newThread) ==
    (IF hadThread # None THEN <<<<"thread", "stop", hadThread>>>> ELSE <<>>)
    \o <<<<"wss", "Shutdown", d>>, <<"wss", "Initialize", d>>,
         <<"thread", "start", newThread>>>>

Steps(ops) == [i \in DOMAIN ops |-> <<ops[i].on, ops[i].op, ops[i].d>>]

ResetRadioDone(c) ==
    Finished(c, {"resetRadio"}) =>
       /\ call[c].ref = None => call[c].ops = <<>> /\ call[c].res = "ok"
       /\ wss = call[c].ref
       /\ \A i \in DOMAIN call[c].ops :
             call[c].ops[i].op # "Dispose" /\ call[c].ops[i].on # "ctor"
       /\ (call[c].ref # None /\ call[c].res = "ok") =>
             /\ tick_thread # None
             /\ Alive(tick_thread)
             /\ ~tick_stop
             /\ \E h \in ThreadIds \cup {None} :
                   Steps(call[c].ops) = ResetRadioSteps(call[c].ref, h, tick_thread)

C16_ResetRadioSequence ==
    [][\A c \in Callers :
          /\ ResetRadioDone(c)'
          /\ (call'[c].op = "resetRadio" /\ call'[c] # call[c] /\ call'[c].pc # "idle")
                => UNCHANGED <<wss, basic_wss, basic_supported>>
          /\ call'[c].pc \in {"rr_down", "rr_init", "rr_tick"} => tick_thread' = None]_vars

C16_Witness ==
    \E c \in Callers :
       /\ Finished(c, {"resetRadio"})
       /\ call[c].ref # None
       /\ call[c].res = "ok"
       /\ Len(call[c].ops) = 4
       /\ basic_supported

\* ---------------------------------------------------------------- C17
\* C17: when the device's Shutdown or Initialize raises in resetRadio, resetRadio
\* ends there with the exception: nothing is called after it and no error is
\* logged.
C17_ResetRadioPropagates ==
    \A c \in Callers :
       Finished(c, {"resetRadio"}) =>
          /\ \A i \in DOMAIN call[c].ops :
                call[c].ops[i].raised =>
                   i = Len(call[c].ops) /\ call[c].res = "raised"
          /\ \A i \in DOMAIN call[c].ops : call[c].ops[i].on # "log"
          /\ call[c].res = "raised" =>
                call[c].ops # <<>> /\ LastOp(c).raised /\ LastOp(c).on = "wss"

C17_Witness ==
    \E c \in Callers :
       /\ Finished(c, {"resetRadio"})
       /\ call[c].res = "raised"
       /\ LastOp(c).op = "Initialize"
       /\ log_type

\* ---------------------------------------------------------------- C18
\* C18: when a Shutdown (or releaseRadio) has returned, the device slot, the
\* extended handle, the thread handle and the log reset callback are empty and
\* basic_supported and started are false.
C18_ShutdownClearsAll ==
    \A c \in Callers : Finished(c, LifecycleStops) => Unpopulated

\* ---------------------------------------------------------------- C19
\* C19: the reset callback of an installation of the log sink is called at most
\* once: a Shutdown calls it only when it has not been called since the sink was
\* installed, and the first Shutdown after the installation does call it.
CallsReset(ops) == \E i \in DOMAIN ops : ops[i].on = "log" /\ ops[i].op = "ResetSink"

C19_ResetCalledOnce ==
    [][\A c \in Callers :
          (call[c].pc = "sd_clear" /\ call'[c].pc = "done") =>
             /\ CallsReset(call'[c].ops) => ~sink.called
             /\ (sink.held /\ ~sink.called) => CallsReset(call'[c].ops)]_vars

\* ---------------------------------------------------------------- C20
\* C20: whenever an Initialize has returned normally, the Python sink is
\* installed in the .NET Log type and its reset callback has not been called
\* since.
C20_SinkInstalledWhenInitialized ==
    \A c \in Callers :
       (Finished(c, {"Initialize"}) /\ call[c].res = "ok") =>
          sink.held /\ ~sink.called

\* ---------------------------------------------------------------- C21
\* C21: when the console loop has ended (quit or exit, end of input, or an
\* exception leaving the loop) and _run_interactive_loop is left, the console
\* has called StopStimulation and then Shutdown, whatever StopStimulation did.
C21_ShutdownOnLoopExit ==
    cli.at = "exited" => \E c \in Foreground : Finished(c, {"Shutdown"})

\* ---------------------------------------------------------------- C22
\* C22: over any sequence of Initialize, Shutdown and resetRadio calls, at most
\* one tick thread of the controller is alive, also after a join that timed out
\* and left its thread running without a handle.
C22_AtMostOneTickThread == Cardinality(AliveThreads) <= 1

\* ---------------------------------------------------------------- C23
\* C23: a device Tick call of a tick thread is in progress only on a device
\* whose Initialize the controller has called and seen return, and whose
\* Shutdown or Dispose the controller has not called since: no Tick overlaps
\* or follows the teardown of its device or precedes the end of its Initialize.
C23_TickOnInitializedDevice ==
    \A t \in ThreadIds : thr[t].pc = "tick" => dev[thr[t].d] = "init"

\* ---------------------------------------------------------------- C24
\* C24: once a Shutdown call has returned, and before the caller makes another
\* call (so before the next Initialize begins), no tick thread finds the slot
\* non-empty at line 118 and none starts a device Tick call.
C24_NoTickAfterShutdown ==
    [][(\E c \in Callers : Finished(c, LifecycleStops)) =>
          \A t \in ThreadIds :
             /\ ~(thr[t].pc = "top" /\ thr'[t].pc = "call")
             /\ ~(thr[t].pc = "invoke" /\ thr'[t].pc = "tick")]_vars

\* ---------------------------------------------------------------- C25
\* The positions inside the bodies guarded by the gate.
GatedPcs ==
    {"init_dev", "init_tick", "join", "sd_dev", "sd_clear", "rr_down", "rr_init",
     "rr_tick"}
InBody(c) == call[c].pc \in GatedPcs

\* C25: with Initialize, Shutdown, releaseRadio and resetRadio called from
\* several threads, at most one caller is inside a gated body, the gate is held
\* by that caller, and it is free whenever no caller is inside a body: a body
\* that returned or raised has released it.
C25_GateExclusion ==
    /\ Cardinality({c \in Callers : InBody(c)}) <= 1
    /\ \A c \in Callers : InBody(c) <=> gate = c
    /\ (\A c \in Callers : ~InBody(c)) => gate = 0

\* A lifecycle call raised inside its body, and another caller is in a body.
C25_Witness ==
    \E c, x \in Callers :
       /\ c # x
       /\ Finished(c, {"Initialize", "resetRadio"})
       /\ call[c].res = "raised"
       /\ \E i \in DOMAIN call[c].ops : call[c].ops[i].on = "wss" /\ call[c].ops[i].raised
       /\ InBody(x)

\* ---------------------------------------------------------------- C26
\* C26: a Tick call that ends leaves its thread in the loop, in the handler when
\* it raised; and a thread in the handler calls Tick again unless the stop flag
\* is set or the slot is empty.
C26_TickFailureKeepsLoop ==
    /\ [][\A t \in ThreadIds :
            (thr[t].pc = "tick" /\ thr'[t].pc # "tick") =>
               thr'[t].pc \in {"top", "caught"}]_vars
    /\ \A t \in ThreadIds :
          (thr[t].pc = "caught") ~> (thr[t].pc = "tick" \/ tick_stop \/ wss = None)

\* A Tick call raised while the slot is non-empty and the stop flag clear.
C26_Witness ==
    \E t \in ThreadIds :
       /\ thr[t].pc = "caught"
       /\ thr[t].d # None
       /\ ~tick_stop
       /\ wss # None

\* ---------------------------------------------------------------- C27
\* C27: when the device's Shutdown, Dispose and Initialize return or raise, a
\* Shutdown, releaseRadio or resetRadio call that has entered its body comes to
\* its end, also while a tick thread stays inside Tick for ever; the join is
\* left with the thread handle discarded, and no step of a tick thread
\* touches the gate.
C27_StopsTerminate ==
    /\ \A c \in Callers :
          (InBody(c) /\ call[c].op \in LifecycleStops \cup {"resetRadio"})
             ~> (call[c].pc = "done")
    /\ [][/\ \A c \in Callers :
               (call[c].pc = "join" /\ call'[c].pc # "join") => tick_thread' = None
          /\ thr' # thr /\ call' = call => gate' = gate]_vars

\* A Shutdown or resetRadio call has ended while the thread it stopped is
\* still inside Tick.
C27_Witness ==
    \E c \in Callers :
       /\ Finished(c, LifecycleStops \cup {"resetRadio"})
       /\ \E i \in DOMAIN call[c].ops :
             /\ call[c].ops[i].on = "thread"
             /\ call[c].ops[i].op = "stop"
             /\ call[c].ops[i].d # tick_thread
             /\ thr[call[c].ops[i].d].pc = "tick"

\* ---------------------------------------------------------------- C28
\* C28: a command never waits for the gate and never changes it: while a
\* lifecycle call holds the gate, a caller that is between calls can begin a
\* command, and a command that has passed the device-present check can make
\* its device call, whatever has been done to the device since the check.
C28_CommandsIgnoreGate ==
    /\ \A c \in Callers \ Foreground :
          /\ (call[c].pc = "idle" /\ gate # 0) =>
                ENABLED _ensure_wss(c, "StartStimulation", <<>>)
          /\ call[c].pc = "cmd" => ENABLED Command_call(c, TRUE, 0)
    /\ gate \in {0} \cup Foreground

\* A command has passed the device-present check and is about to call the
\* device, which a concurrent Shutdown has disposed meanwhile.
C28_Witness ==
    \E c \in Callers \ Foreground :
       /\ call[c].pc = "cmd"
       /\ call[c].ref # None
       /\ dev[call[c].ref] = "disposed"

\* ---------------------------------------------------------------- C29
\* C29: in every interleaving of the extended commands with Initialize,
\* Shutdown and resetRadio, an operation is invoked on the extended handle only
\* while basic_supported is true.
C29_HandleUsedOnlyWhenSupported ==
    [][\A c \in Callers :
          (call[c].pc = "ext" /\ call'[c].pc = "done" /\ call'[c].ops # <<>>)
             => basic_supported]_vars

\* ---------------------------------------------------------------- C30
\* C30: whenever no command and no lifecycle call is in progress, started is
\* true only if the slot is non-empty.
C30_StartedImpliesDevice ==
    (\A c \in Callers : call[c].pc \in {"idle", "done"}) => (started => wss # None)

\* ---------------------------------------------------------------- C31
\* C31: whenever no caller is inside a lifecycle operation, a non-empty slot
\* comes with a tick thread that is alive, also after an Initialize or a
\* resetRadio call that raised.
C31_DeviceImpliesTickThread ==
    (\A c \in Callers : ~InBody(c)) => (wss # None => AliveThreads # {})

====
